---- MODULE Spec2Model ----
(***************************************************************************)
(* A model of the GEMM access-trace generator (gemm_simulator.py), of the  *)
(* set-associative LRU cache simulator (cache_simulator.py) and of the     *)
(* callbacks of the dashboard (interactive_viz.py).                        *)
(*                                                                         *)
(* SpecGen is the state machine of one GEMMSimulator instance.  Spec and   *)
(* SpecReplay are state machines of one CacheSimulator instance: Spec with *)
(* the calls access, reset and get_statistics, SpecReplay with access,     *)
(* reset and simulate_accesses on traces of the generator.  SpecCtor adds  *)
(* the constructor with any geometry, SpecParse calls _parse_address, and  *)
(* SpecAddr replays single events for any matrix size and coordinates.     *)
(* SpecAlias follows the list objects behind self.tracks, SpecSample runs   *)
(* the cache across multiples of 100 accesses.  SpecDashCache constructs   *)
(* the dashboard's cache for every matrix size, SpecDash runs the          *)
(* callbacks that share simulation_data in any order, and SpecPlay (with   *)
(* SpecPlayFair, where the interval timer keeps firing) is the playback.   *)
(***************************************************************************)
EXTENDS Integers, Sequences, FiniteSets, Bags, TLC

(***************************************************************************)
(* Bounds of the model.                                                    *)
(***************************************************************************)
\* Largest matrix dimension n a GEMMSimulator is constructed with.
MaxN == 4
\* Direct access() calls are explored while the accesses counter is below
\* MaxDirect (Spec) or MaxPrior (SpecReplay).
MaxDirect == 4
MaxPrior == 2
\* Largest associativity a CacheSimulator is constructed with.
MaxAssoc == 2
\* Largest matrix dimension of the generated traces that are replayed.
MaxReplayN == 3
\* Largest byte address given to _parse_address in SpecParse.
MaxAddress == 300
\* Largest matrix_size given to simulate_accesses in SpecAddr.
MaxMatrixSize == 92
\* SpecAlias: largest n, and the number of list objects a run creates (the
\* constructor's and one per reset).
MaxAliasN == 2
MaxLists == 4
\* SpecSample: direct accesses are explored up to MaxSampleOver accesses
\* past a multiple of 100.
MaxSampleOver == 1
\* SpecDash: largest matrix size selected on the dashboard, and the number
\* of times the user operates a control.
MaxDashN == 6
MaxDashEvents == 2
\* SpecPlay: the number of times the user operates a control.
MaxUserEvents == 3

(***************************************************************************)
(* Python's None; an optional argument is None or the one-element tuple    *)
(* of its value (block_size=None, matrix_bases=None).                      *)
(***************************************************************************)
None == <<>>

Some(v) == <<v>>

VARIABLES
    \* ---- GEMMSimulator instance ----
    n,              \* self.n
    block_size,     \* self.block_size
    tracks,         \* self.tracks: sequence of <<a_pos, b_pos, c_pos>>
    access_count,   \* self.access_count: [A, B, C -> Nat]
    gcall,          \* the last call made on the generator and its arguments
    gret,           \* what that call returned, or the exception it raised
    \* ---- CacheSimulator instance ----
    config,         \* cache_size, line_size, associativity, element_size,
                    \* num_lines, num_sets
    cache,          \* self.cache: set index -> sequence of tags, LRU first
    hits,           \* self.hits
    misses,         \* self.misses
    accesses,       \* self.accesses
    hit_rate_history, \* self.hit_rate_history: sequence of rates
    ccall,          \* the last call made on the cache simulator
    cret,           \* what that call returned
    \* ---- history, kept only by Spec ----
    alog,           \* the addresses given to access() since the last reset
    \* ---- list objects, kept only by SpecAlias ----
    heap,           \* the list objects created so far: identity -> contents
    tracks_ref,     \* the identity of the list self.tracks is bound to
    held,           \* the traces simulate returned: the identity of the
                    \* list returned and its contents when it was returned
    \* ---- the dashboard (interactive_viz.py), kept only by its specs ----
    ui,             \* the properties of the layout's components
    simulation_data, \* the module's global dict simulation_data
    pending,        \* the callback invocations requested and not yet run
    rendered,       \* what the last update_visualizations returned
    user_events     \* the number of user actions so far

genVars == <<n, block_size, tracks, access_count, gcall, gret>>
cacheVars == <<config, cache, hits, misses, accesses, hit_rate_history, ccall, cret>>
heapVars == <<heap, tracks_ref, held>>
dashVars == <<ui, simulation_data, pending, rendered, user_events>>
vars == <<n, block_size, tracks, access_count, gcall, gret,
          config, cache, hits, misses, accesses, hit_rate_history, ccall, cret,
          alog, heap, tracks_ref, held,
          ui, simulation_data, pending, rendered, user_events>>

(***************************************************************************)
(* Python helpers.                                                         *)
(***************************************************************************)
Min(a, b) == IF a <= b THEN a ELSE b

Max(a, b) == IF a >= b THEN a ELSE b

\* Python's a % b for b # 0: the remainder of the floor division a // b
\* (written a \div b), with the sign of b
PyMod(a, b) == a - b * (a \div b)

\* ceil(a / b) for b > 0
CeilDiv(a, b) == (a + b - 1) \div b

\* range(start, stop, step) as the sequence of the values it yields; step # 0
Range(start, stop, step) ==
    LET cnt == IF step > 0 THEN Max(0, CeilDiv(stop - start, step))
                           ELSE Max(0, CeilDiv(start - stop, 0 - step))
    IN  [idx \in 1..cnt |-> start + (idx - 1) * step]

\* the concatenation of a sequence of sequences
\* (halved, so that the depth of the recursion is logarithmic)
RECURSIVE Concat(_)
Concat(ss) ==
    IF Len(ss) = 0 THEN <<>>
    ELSE IF Len(ss) = 1 THEN ss[1]
    ELSE LET mid == Len(ss) \div 2
         IN  Concat(SubSeq(ss, 1, mid)) \o Concat(SubSeq(ss, mid + 1, Len(ss)))

\* for x in R: for y in R: for z in R -- the <<x, y, z>> the three nested
\* loops visit, in the order they visit them (x outermost, z innermost)
Nest3(R) ==
    Concat([a \in DOMAIN R |->
        Concat([b \in DOMAIN R |->
            [c \in DOMAIN R |-> <<R[a], R[b], R[c]>>]])])

(***************************************************************************)
(* GEMMSimulator                                                           *)
(***************************************************************************)
LOOP_ORDERS == {"ijk", "ikj", "jik", "jki", "kij", "kji"}

Matrices == {"A", "B", "C"}

ZeroCount == [m \in Matrices |-> 0]

\* __init__: self.block_size = block_size if block_size else n
InitBlockSize(nn, bs_arg) ==
    IF bs_arg = None \/ bs_arg[1] = 0 THEN nn ELSE bs_arg[1]

\* reset(): self.tracks = []; self.access_count = {'A': 0, 'B': 0, 'C': 0}
\* The generator's mutable fields as one value: [tracks, access_count].
ResetGen == [tracks |-> <<>>, access_count |-> ZeroCount]

\* self.tracks.append((a_pos, b_pos, c_pos)): the event appended
Event(a_pos, b_pos, c_pos) == <<a_pos, b_pos, c_pos>>

\* RecordAccess with b_pos built as (j, k) instead of (k, j)
RecordAccess_SwappedB(i, j, k) == << Event(<<i, k>>, <<j, k>>, <<i, j>>) >>

\* _record_access(i, j, k): the events it appends (one)
RecordAccess(i, j, k) == << Event(<<i, k>>, <<k, j>>, <<i, j>>) >>

\* InnerLoops without the min(.., n) clipping of boundary tiles
InnerLoops_NoClip(nn, i_base, j_base, k_base, bs) ==
    LET Ri == Range(i_base, i_base + bs, 1)
        Rj == Range(j_base, j_base + bs, 1)
        Rk == Range(k_base, k_base + bs, 1)
    IN  Concat([a \in DOMAIN Ri |->
            Concat([b \in DOMAIN Rj |->
                Concat([c \in DOMAIN Rk |->
                    LET ii == Ri[a]
                        jj == Rj[b]
                        kk == Rk[c]
                    IN  << Event(<<ii, kk>>, <<kk, jj>>, <<ii, jj>>) >>])])])

\* InnerLoops with the inner nest permuted to k outermost, i innermost
InnerLoops_Permuted(nn, i_base, j_base, k_base, bs) ==
    LET Rk == Range(k_base, Min(k_base + bs, nn), 1)
        Rj == Range(j_base, Min(j_base + bs, nn), 1)
        Ri == Range(i_base, Min(i_base + bs, nn), 1)
    IN  Concat([a \in DOMAIN Rk |->
            Concat([b \in DOMAIN Rj |->
                Concat([c \in DOMAIN Ri |->
                    LET kk == Rk[a]
                        jj == Rj[b]
                        ii == Ri[c]
                    IN  << Event(<<ii, kk>>, <<kk, jj>>, <<ii, jj>>) >>])])])

\* _inner_loops(i_base, j_base, k_base, bs): the events it appends
InnerLoops(nn, i_base, j_base, k_base, bs) ==
    LET Ri == Range(i_base, Min(i_base + bs, nn), 1)
        Rj == Range(j_base, Min(j_base + bs, nn), 1)
        Rk == Range(k_base, Min(k_base + bs, nn), 1)
    IN  Concat([a \in DOMAIN Ri |->
            Concat([b \in DOMAIN Rj |->
                Concat([c \in DOMAIN Rk |->
                    LET ii == Ri[a]
                        jj == Rj[b]
                        kk == Rk[c]
                    IN  << Event(<<ii, kk>>, <<kk, jj>>, <<ii, jj>>) >>])])])

\* _simulate_blocked(loop_order): the events it appends
SimulateBlocked(nn, bs, loop_order) ==
    LET V == Nest3(Range(0, nn, bs)) IN
    CASE loop_order = "ijk" ->
            Concat([p \in DOMAIN V |->
                LET i == V[p][1]
                    j == V[p][2]
                    k == V[p][3]
                IN  InnerLoops(nn, i, j, k, bs)])
      [] loop_order = "ikj" ->
            Concat([p \in DOMAIN V |->
                LET i == V[p][1]
                    k == V[p][2]
                    j == V[p][3]
                IN  InnerLoops(nn, i, j, k, bs)])
      [] loop_order = "jik" ->
            Concat([p \in DOMAIN V |->
                LET j == V[p][1]
                    i == V[p][2]
                    k == V[p][3]
                IN  InnerLoops(nn, i, j, k, bs)])
      [] loop_order = "jki" ->
            Concat([p \in DOMAIN V |->
                LET j == V[p][1]
                    k == V[p][2]
                    i == V[p][3]
                IN  InnerLoops(nn, i, j, k, bs)])
      [] loop_order = "kij" ->
            Concat([p \in DOMAIN V |->
                LET k == V[p][1]
                    i == V[p][2]
                    j == V[p][3]
                IN  InnerLoops(nn, i, j, k, bs)])
      [] loop_order = "kji" ->
            Concat([p \in DOMAIN V |->
                LET k == V[p][1]
                    j == V[p][2]
                    i == V[p][3]
                IN  InnerLoops(nn, i, j, k, bs)])
      [] OTHER -> <<>>

\* SimulateUnblocked whose 'ikj' and 'jki' branches nest as 'ijk' and 'jik'
SimulateUnblocked_CopiedBranch(nn, loop_order) ==
    LET V == Nest3(Range(0, nn, 1)) IN
    CASE loop_order \in {"ijk", "ikj"} ->
            Concat([p \in DOMAIN V |->
                LET i == V[p][1]
                    j == V[p][2]
                    k == V[p][3]
                IN  RecordAccess(i, j, k)])
      [] loop_order \in {"jik", "jki"} ->
            Concat([p \in DOMAIN V |->
                LET j == V[p][1]
                    i == V[p][2]
                    k == V[p][3]
                IN  RecordAccess(i, j, k)])
      [] loop_order = "kij" ->
            Concat([p \in DOMAIN V |->
                LET k == V[p][1]
                    i == V[p][2]
                    j == V[p][3]
                IN  RecordAccess(i, j, k)])
      [] loop_order = "kji" ->
            Concat([p \in DOMAIN V |->
                LET k == V[p][1]
                    j == V[p][2]
                    i == V[p][3]
                IN  RecordAccess(i, j, k)])
      [] OTHER -> <<>>

\* _simulate_unblocked(loop_order): the events it appends
SimulateUnblocked(nn, loop_order) ==
    LET V == Nest3(Range(0, nn, 1)) IN
    CASE loop_order = "ijk" ->
            Concat([p \in DOMAIN V |->
                LET i == V[p][1]
                    j == V[p][2]
                    k == V[p][3]
                IN  RecordAccess(i, j, k)])
      [] loop_order = "ikj" ->
            Concat([p \in DOMAIN V |->
                LET i == V[p][1]
                    k == V[p][2]
                    j == V[p][3]
                IN  RecordAccess(i, j, k)])
      [] loop_order = "jik" ->
            Concat([p \in DOMAIN V |->
                LET j == V[p][1]
                    i == V[p][2]
                    k == V[p][3]
                IN  RecordAccess(i, j, k)])
      [] loop_order = "jki" ->
            Concat([p \in DOMAIN V |->
                LET j == V[p][1]
                    k == V[p][2]
                    i == V[p][3]
                IN  RecordAccess(i, j, k)])
      [] loop_order = "kij" ->
            Concat([p \in DOMAIN V |->
                LET k == V[p][1]
                    i == V[p][2]
                    j == V[p][3]
                IN  RecordAccess(i, j, k)])
      [] loop_order = "kji" ->
            Concat([p \in DOMAIN V |->
                LET k == V[p][1]
                    j == V[p][2]
                    i == V[p][3]
                IN  RecordAccess(i, j, k)])
      [] OTHER -> <<>>

\* the generator's fields after the events were appended: each append
\* comes with access_count['A'] += 1, ['B'] += 1, ['C'] += 1
Appended(g, events) ==
    [tracks |-> g.tracks \o events,
     access_count |-> [m \in Matrices |-> g.access_count[m] + Len(events)]]

\* the generator's mutable fields, as one value
Gen == [tracks |-> tracks, access_count |-> access_count]

\* SimulateOn that falls back to 'ijk' for an unknown loop order
SimulateOn_DefaultOrder(g, nn, bs, loop_order, blocked) ==
    LET g0 == [g EXCEPT !.tracks = ResetGen.tracks,
                        !.access_count = ResetGen.access_count]
        order == IF loop_order \in LOOP_ORDERS THEN loop_order ELSE "ijk"
        g1 == IF blocked
              THEN Appended(g0, SimulateBlocked(nn, bs, order))
              ELSE Appended(g0, SimulateUnblocked(nn, order))
    IN  [g |-> g1, ret |-> [kind |-> "trace", value |-> g1.tracks]]

\* SimulateOn that validates loop_order before it calls reset()
SimulateOn_ValidateFirst(g, nn, bs, loop_order, blocked) ==
    IF loop_order \notin LOOP_ORDERS
    THEN [g |-> g, ret |-> [kind |-> "ValueError", value |-> <<>>]]
    ELSE LET g0 == [g EXCEPT !.tracks = ResetGen.tracks,
                             !.access_count = ResetGen.access_count]
             g1 == IF blocked
                   THEN Appended(g0, SimulateBlocked(nn, bs, loop_order))
                   ELSE Appended(g0, SimulateUnblocked(nn, loop_order))
         IN  [g |-> g1, ret |-> [kind |-> "trace", value |-> g1.tracks]]

\* SimulateOn without the call of reset()
SimulateOn_NoReset(g, nn, bs, loop_order, blocked) ==
    LET g0 == g IN
    IF loop_order \notin LOOP_ORDERS
    THEN [g |-> g0, ret |-> [kind |-> "ValueError", value |-> <<>>]]
    ELSE LET g1 == IF blocked
                   THEN Appended(g0, SimulateBlocked(nn, bs, loop_order))
                   ELSE Appended(g0, SimulateUnblocked(nn, loop_order))
         IN  [g |-> g1, ret |-> [kind |-> "trace", value |-> g1.tracks]]

\* simulate(loop_order, blocked) on an instance whose mutable fields are g:
\* the fields after the call and what the call gives back to its caller.
SimulateOn(g, nn, bs, loop_order, blocked) ==
    LET g0 == [g EXCEPT !.tracks = ResetGen.tracks,
                        !.access_count = ResetGen.access_count]
    IN
    IF loop_order \notin LOOP_ORDERS
    THEN [g |-> g0, ret |-> [kind |-> "ValueError", value |-> <<>>]]
    ELSE LET g1 == IF blocked
                   THEN Appended(g0, SimulateBlocked(nn, bs, loop_order))
                   ELSE Appended(g0, SimulateUnblocked(nn, loop_order))
         IN  [g |-> g1, ret |-> [kind |-> "trace", value |-> g1.tracks]]

\* simulate(loop_order, blocked) as the first call on a new instance, whose
\* constructor left tracks empty and the counts zero
SimulateGen(nn, bs, loop_order, blocked) ==
    SimulateOn(ResetGen, nn, bs, loop_order, blocked)

\* ---- the derived views ----
\* the position of each matrix in an event (a_pos, b_pos, c_pos)
MatrixIndex == [A |-> 1, B |-> 2, C |-> 3]

\* the n x n grid of coordinates of np.zeros((n, n))
Grid(nn) == (0 .. nn - 1) \X (0 .. nn - 1)

\* HeatmapData that does not tally c_pos
HeatmapData_MissingC(g, nn) ==
    [m \in Matrices |->
        [pos \in Grid(nn) |->
            IF m = "C" THEN 0
            ELSE Cardinality({p \in DOMAIN g.tracks :
                                g.tracks[p][MatrixIndex[m]] = pos})]]

\* get_heatmap_data(): for each matrix the grid of zeros, plus 1 at the
\* matrix's position for every event of self.tracks
HeatmapData(g, nn) ==
    [m \in Matrices |->
        [pos \in Grid(nn) |->
            Cardinality({p \in DOMAIN g.tracks :
                            g.tracks[p][MatrixIndex[m]] = pos})]]

\* get_statistics()
GenStatistics(g, nn, bs) ==
    [total_operations |-> Len(g.tracks),
     matrix_size |-> nn,
     block_size |-> bs,
     access_count |-> g.access_count,
     theoretical_ops |-> nn * nn * nn]

\* ---- inputs explored ----
\* block_size arguments given to the constructor
BlockSizeArgs == {None} \cup {Some(v) : v \in -1 .. MaxN + 1}

\* loop_order arguments given to simulate: the six orders and two others
LoopOrderArgs == LOOP_ORDERS \cup {"abc", "IJK"}

NoCall == [op |-> "none"]

\* list identities are not tracked
NoHeap == heap = <<>> /\ tracks_ref = 0 /\ held = <<>>

\* no dashboard is running
NoDash ==
    /\ ui = None /\ simulation_data = None /\ pending = EmptyBag
    /\ rendered = None /\ user_events = 0

NoRet == [kind |-> "none", value |-> <<>>]

\* ---- the generator after construction ----
GenInit ==
    /\ n \in 1..MaxN
    /\ \E bs_arg \in BlockSizeArgs : block_size = InitBlockSize(n, bs_arg)
    /\ tracks = <<>>
    /\ access_count = ZeroCount
    /\ gcall = NoCall
    /\ gret = NoRet

\* ---- the generator's operations ----
Simulate(loop_order, blocked) ==
    LET r == SimulateOn(Gen, n, block_size, loop_order, blocked) IN
    /\ tracks' = r.g.tracks
    /\ access_count' = r.g.access_count
    /\ gcall' = [op |-> "simulate", loop_order |-> loop_order, blocked |-> blocked]
    /\ gret' = r.ret
    /\ UNCHANGED <<n, block_size>>

GenReset ==
    /\ tracks' = ResetGen.tracks
    /\ access_count' = ResetGen.access_count
    /\ gcall' = [op |-> "reset"]
    /\ gret' = NoRet
    /\ UNCHANGED <<n, block_size>>

GenSimulate ==
    \E loop_order \in LoopOrderArgs, blocked \in BOOLEAN :
        Simulate(loop_order, blocked)

GenGetHeatmapData ==
    /\ gcall' = [op |-> "get_heatmap_data"]
    /\ gret' = [kind |-> "heatmaps", value |-> HeatmapData(Gen, n)]
    /\ UNCHANGED <<n, block_size, tracks, access_count>>

GenGetStatistics ==
    /\ gcall' = [op |-> "get_statistics"]
    /\ gret' = [kind |-> "stats", value |-> GenStatistics(Gen, n, block_size)]
    /\ UNCHANGED <<n, block_size, tracks, access_count>>

\* no CacheSimulator exists beside the generator
NoCache ==
    /\ config = None /\ cache = None /\ hits = 0 /\ misses = 0
    /\ accesses = 0 /\ hit_rate_history = <<>> /\ ccall = NoCall /\ cret = NoRet
    /\ alog = <<>>

SpecGenInit == GenInit /\ NoCache /\ NoHeap /\ NoDash

SpecGenNext ==
    \/ GenSimulate /\ UNCHANGED <<cacheVars, alog, heapVars, dashVars>>
    \/ GenReset /\ UNCHANGED <<cacheVars, alog, heapVars, dashVars>>
    \/ GenGetHeatmapData /\ UNCHANGED <<cacheVars, alog, heapVars, dashVars>>
    \/ GenGetStatistics /\ UNCHANGED <<cacheVars, alog, heapVars, dashVars>>

SpecGen == SpecGenInit /\ [][SpecGenNext]_vars
(***************************************************************************)
(* CacheSimulator                                                          *)
(***************************************************************************)
\* __init__: the configuration fields and the derived num_lines, num_sets
Geometry(cache_size, line_size, associativity, element_size) ==
    [cache_size |-> cache_size,
     line_size |-> line_size,
     associativity |-> associativity,
     element_size |-> element_size,
     num_lines |-> cache_size \div line_size,
     num_sets |-> (cache_size \div line_size) \div associativity]

\* __init__: the cache storage and the statistics of a new simulator.
\* The simulator's mutable fields as one value; a cache set (an
\* OrderedDict) is the sequence of its keys, least recently used first.
NewCache(cfg) ==
    [cache |-> [i \in 0 .. cfg.num_sets - 1 |-> <<>>],
     hits |-> 0,
     misses |-> 0,
     accesses |-> 0,
     hit_rate_history |-> <<>>]

\* ResetCache that leaves the hits counter as it is
ResetCache_KeepsHits(cfg, c) ==
    [c EXCEPT !.cache = [i \in 0 .. cfg.num_sets - 1 |-> <<>>],
              !.misses = 0,
              !.accesses = 0,
              !.hit_rate_history = <<>>]

\* ResetCache that leaves hit_rate_history as it is
ResetCache_KeepsHistory(cfg, c) ==
    [c EXCEPT !.cache = [i \in 0 .. cfg.num_sets - 1 |-> <<>>],
              !.hits = 0,
              !.misses = 0,
              !.accesses = 0]

\* reset(): the simulator's fields c after the call
ResetCache(cfg, c) ==
    [c EXCEPT !.cache = [i \in 0 .. cfg.num_sets - 1 |-> <<>>],
              !.hits = 0,
              !.misses = 0,
              !.accesses = 0,
              !.hit_rate_history = <<>>]

\* _get_address(matrix_base, row, col, n)
GetAddress(cfg, matrix_base, row, col, nn) ==
    LET offset == (row * nn + col) * cfg.element_size
    IN  matrix_base + offset

\* ParseAddress that takes the set index from the byte address, not from
\* the line number
ParseAddress_SetOfByte(cfg, address) ==
    [block_offset |-> PyMod(address, cfg.line_size),
     set_index |-> PyMod(address, cfg.num_sets),
     tag |-> address \div (cfg.line_size * cfg.num_sets)]

\* _parse_address(address)
ParseAddress(cfg, address) ==
    [block_offset |-> PyMod(address, cfg.line_size),
     set_index |-> PyMod(address \div cfg.line_size, cfg.num_sets),
     tag |-> address \div (cfg.line_size * cfg.num_sets)]

\* A rate is a float in the code; here it is the exact fraction
\* <<numerator, denominator>> the float approximates.
\* GetHitRate without the * 100: a fraction of 1, not a percentage
GetHitRate_Fraction(c) ==
    IF c.accesses = 0 THEN <<0, 1>> ELSE <<c.hits, c.accesses>>

\* get_hit_rate(): 0.0 if accesses == 0, else (hits / accesses) * 100
GetHitRate(c) ==
    IF c.accesses = 0 THEN <<0, 1>> ELSE <<c.hits * 100, c.accesses>>

\* 100 - rate
Complement(rate) == <<100 * rate[2] - rate[1], rate[2]>>

\* tag in cache_set
InSet(tag, cache_set) == \E p \in DOMAIN cache_set : cache_set[p] = tag

\* MoveToEnd that leaves the order as it is (a hit does not refresh the tag)
MoveToEnd_Unmoved(cache_set, tag) == cache_set

\* MoveToEnd that moves the tag to the front (move_to_end(tag, last=False))
MoveToEnd_ToFront(cache_set, tag) ==
    <<tag>> \o SelectSeq(cache_set, LAMBDA t : t # tag)

\* cache_set.move_to_end(tag)
MoveToEnd(cache_set, tag) ==
    Append(SelectSeq(cache_set, LAMBDA t : t # tag), tag)

\* Insert without the eviction
Insert_NoEvict(cache_set, tag, associativity) == Append(cache_set, tag)

\* Insert that pops the newest entry (popitem(last=True)) on overflow
Insert_EvictNewest(cache_set, tag, associativity) ==
    LET added == Append(cache_set, tag)
    IN  IF Len(added) > associativity
        THEN SubSeq(added, 1, Len(added) - 1)
        ELSE added

\* cache_set[tag] = True, then popitem(last=False) if the set overflows
Insert(cache_set, tag, associativity) ==
    LET added == Append(cache_set, tag)
    IN  IF Len(added) > associativity THEN Tail(added) ELSE added

\* the period of the hit-rate samples
SamplePeriod == 100

\* AccessOp whose miss branch does not count the miss
AccessOp_MissUncounted(cfg, c, address) ==
    LET pa == ParseAddress(cfg, address)
        cache_set == c.cache[pa.set_index]
        hit == InSet(pa.tag, cache_set)
        c1 == IF hit
              THEN [c EXCEPT !.accesses = @ + 1,
                             !.cache[pa.set_index] = MoveToEnd(cache_set, pa.tag),
                             !.hits = @ + 1]
              ELSE [c EXCEPT !.accesses = @ + 1,
                             !.cache[pa.set_index] =
                                 Insert(cache_set, pa.tag, cfg.associativity)]
        c2 == IF c1.accesses % SamplePeriod = 0
              THEN [c1 EXCEPT !.hit_rate_history = Append(@, GetHitRate(c1))]
              ELSE c1
    IN  [c |-> c2, hit |-> hit]

\* AccessOp that looks for the tag in every set, not only in the set of
\* the address
AccessOp_AnySet(cfg, c, address) ==
    LET pa == ParseAddress(cfg, address)
        cache_set == c.cache[pa.set_index]
        hit == \E s \in DOMAIN c.cache : InSet(pa.tag, c.cache[s])
        c1 == IF hit
              THEN [c EXCEPT !.accesses = @ + 1,
                             !.cache[pa.set_index] = MoveToEnd(cache_set, pa.tag),
                             !.hits = @ + 1]
              ELSE [c EXCEPT !.accesses = @ + 1,
                             !.misses = @ + 1,
                             !.cache[pa.set_index] =
                                 Insert(cache_set, pa.tag, cfg.associativity)]
        c2 == IF c1.accesses % SamplePeriod = 0
              THEN [c1 EXCEPT !.hit_rate_history = Append(@, GetHitRate(c1))]
              ELSE c1
    IN  [c |-> c2, hit |-> hit]

\* AccessOp that samples the hit rate of the counters as they were before
\* the access
AccessOp_StaleSample(cfg, c, address) ==
    LET pa == ParseAddress(cfg, address)
        cache_set == c.cache[pa.set_index]
        hit == InSet(pa.tag, cache_set)
        c1 == IF hit
              THEN [c EXCEPT !.accesses = @ + 1,
                             !.cache[pa.set_index] = MoveToEnd(cache_set, pa.tag),
                             !.hits = @ + 1]
              ELSE [c EXCEPT !.accesses = @ + 1,
                             !.misses = @ + 1,
                             !.cache[pa.set_index] =
                                 Insert(cache_set, pa.tag, cfg.associativity)]
        c2 == IF c1.accesses % SamplePeriod = 0
              THEN [c1 EXCEPT !.hit_rate_history = Append(@, GetHitRate(c))]
              ELSE c1
    IN  [c |-> c2, hit |-> hit]

\* access(address): the simulator's fields after the call, and its result
AccessOp(cfg, c, address) ==
    LET pa == ParseAddress(cfg, address)
        cache_set == c.cache[pa.set_index]
        hit == InSet(pa.tag, cache_set)
        c1 == IF hit
              THEN [c EXCEPT !.accesses = @ + 1,
                             !.cache[pa.set_index] = MoveToEnd(cache_set, pa.tag),
                             !.hits = @ + 1]
              ELSE [c EXCEPT !.accesses = @ + 1,
                             !.misses = @ + 1,
                             !.cache[pa.set_index] =
                                 Insert(cache_set, pa.tag, cfg.associativity)]
        c2 == IF c1.accesses % SamplePeriod = 0
              THEN [c1 EXCEPT !.hit_rate_history = Append(@, GetHitRate(c1))]
              ELSE c1
    IN  [c |-> c2, hit |-> hit]

\* get_statistics()
GetStatistics(cfg, c) ==
    [total_accesses |-> c.accesses,
     hits |-> c.hits,
     misses |-> c.misses,
     hit_rate |-> GetHitRate(c),
     miss_rate |-> Complement(GetHitRate(c)),
     hit_rate_history |-> c.hit_rate_history,
     cache_config |-> [cache_size |-> cfg.cache_size,
                       line_size |-> cfg.line_size,
                       associativity |-> cfg.associativity,
                       num_sets |-> cfg.num_sets]]

\* simulate_accesses: the default base addresses
DefaultBases == [A |-> 65536, B |-> 131072, C |-> 196608]

\* self.access(addr) inside simulate_accesses; st.c are the simulator's
\* fields and st.log the addresses the replay has given to access so far
ReplayAccess(cfg, st, addr) ==
    [c |-> AccessOp(cfg, st.c, addr).c, log |-> Append(st.log, addr)]

\* ReplayEvent that accesses B before A
ReplayEvent_BFirst(cfg, st, ev, matrix_size, matrix_bases) ==
    LET a_pos == ev[1]
        b_pos == ev[2]
        c_pos == ev[3]
        addr_b == GetAddress(cfg, matrix_bases.B, b_pos[1], b_pos[2], matrix_size)
        s1 == ReplayAccess(cfg, st, addr_b)
        addr_a == GetAddress(cfg, matrix_bases.A, a_pos[1], a_pos[2], matrix_size)
        s2 == ReplayAccess(cfg, s1, addr_a)
        addr_c == GetAddress(cfg, matrix_bases.C, c_pos[1], c_pos[2], matrix_size)
        s3 == ReplayAccess(cfg, s2, addr_c)
    IN  ReplayAccess(cfg, s3, addr_c)

\* the body of the loop of simulate_accesses, for one event
ReplayEvent(cfg, st, ev, matrix_size, matrix_bases) ==
    LET a_pos == ev[1]
        b_pos == ev[2]
        c_pos == ev[3]
        addr_a == GetAddress(cfg, matrix_bases.A, a_pos[1], a_pos[2], matrix_size)
        s1 == ReplayAccess(cfg, st, addr_a)
        addr_b == GetAddress(cfg, matrix_bases.B, b_pos[1], b_pos[2], matrix_size)
        s2 == ReplayAccess(cfg, s1, addr_b)
        addr_c == GetAddress(cfg, matrix_bases.C, c_pos[1], c_pos[2], matrix_size)
        s3 == ReplayAccess(cfg, s2, addr_c)
    IN  ReplayAccess(cfg, s3, addr_c)

\* for a_pos, b_pos, c_pos in tracks: ... -- the loop over the events at
\* positions lo..hi, in order: the first half of them, then the second half
\* from the state the first half leaves.  (The test half = half only makes
\* TLC compute the first half before it starts on the second.)
RECURSIVE ReplayRange(_, _, _, _, _, _, _)
ReplayRange(cfg, st, trk, lo, hi, matrix_size, matrix_bases) ==
    IF lo > hi
    THEN st
    ELSE IF lo = hi
    THEN ReplayEvent(cfg, st, trk[lo], matrix_size, matrix_bases)
    ELSE LET mid == (lo + hi) \div 2
             half == ReplayRange(cfg, st, trk, lo, mid, matrix_size, matrix_bases)
         IN  IF half = half
             THEN ReplayRange(cfg, half, trk, mid + 1, hi, matrix_size, matrix_bases)
             ELSE half

\* simulate_accesses(tracks, matrix_size, matrix_bases): the simulator's
\* fields after the call, the statistics it returns, and the addresses it
\* gave to access, in order
SimulateAccessesOp(cfg, c, trk, matrix_size, bases_arg) ==
    LET bases == IF bases_arg = None THEN DefaultBases ELSE bases_arg[1]
        start == [c |-> ResetCache(cfg, c), log |-> <<>>]
        final == ReplayRange(cfg, start, trk, 1, Len(trk), matrix_size, bases)
    IN  [c |-> final.c, stats |-> GetStatistics(cfg, final.c), log |-> final.log]

\* ---- inputs explored ----
CacheSizes == {128, 256}

LineSizes == {64}

ElementSizes == {8}

\* the simulators constructed: those whose geometry has at least one set
Configs ==
    {g \in {Geometry(cs, ls, as, es) :
                cs \in CacheSizes, ls \in LineSizes,
                as \in 1..MaxAssoc, es \in ElementSizes} : g.num_sets >= 1}

\* addresses given to access() directly
Addresses == {0, 8, 64, 128, 256, 512}

\* the traces replayed: the empty trace, and traces of the generator as the
\* module's __main__ builds them (tiles of 2; 'kji' blocked, 'ijk' not)
ReplayRuns ==
    {[tracks |-> <<>>, matrix_size |-> 1]} \cup
    {[tracks |-> SimulateGen(nn, 2, "kji", TRUE).ret.value, matrix_size |-> nn] :
        nn \in 1..MaxReplayN} \cup
    {[tracks |-> SimulateGen(MaxReplayN, 2, "ijk", FALSE).ret.value,
      matrix_size |-> MaxReplayN]}

\* the matrix_bases arguments: absent, or bases that make the matrices alias
BasesArgs == {None, Some([A |-> 0, B |-> 64, C |-> 8])}

\* the simulator's mutable fields, as one value
Sim ==
    [cache |-> cache, hits |-> hits, misses |-> misses,
     accesses |-> accesses, hit_rate_history |-> hit_rate_history]

\* self.<field> = ... for every mutable field
SetSim(c) ==
    /\ cache' = c.cache
    /\ hits' = c.hits
    /\ misses' = c.misses
    /\ accesses' = c.accesses
    /\ hit_rate_history' = c.hit_rate_history

\* no GEMMSimulator exists beside the cache simulator
NoGen ==
    /\ n = 0 /\ block_size = 0 /\ tracks = <<>> /\ access_count = ZeroCount
    /\ gcall = NoCall /\ gret = NoRet

\* ---- the simulator after construction ----
CacheInit ==
    /\ config \in Configs
    /\ cache = NewCache(config).cache
    /\ hits = NewCache(config).hits
    /\ misses = NewCache(config).misses
    /\ accesses = NewCache(config).accesses
    /\ hit_rate_history = NewCache(config).hit_rate_history
    /\ ccall = NoCall
    /\ cret = NoRet

\* ---- the simulator's operations ----
Access(address) ==
    /\ LET r == AccessOp(config, Sim, address) IN
        /\ SetSim(r.c)
        /\ cret' = [kind |-> "bool", value |-> r.hit]
    /\ ccall' = [op |-> "access", address |-> address]
    /\ UNCHANGED config

Reset ==
    /\ SetSim(ResetCache(config, Sim))
    /\ ccall' = [op |-> "reset"]
    /\ cret' = NoRet
    /\ UNCHANGED config

SimulateAccesses(trk, matrix_size, bases_arg) ==
    /\ LET r == SimulateAccessesOp(config, Sim, trk, matrix_size, bases_arg) IN
        /\ SetSim(r.c)
        /\ cret' = [kind |-> "stats", value |-> r.stats]
        /\ ccall' = [op |-> "simulate_accesses", tracks |-> trk,
                     matrix_size |-> matrix_size, matrix_bases |-> bases_arg,
                     addresses |-> r.log]
    /\ UNCHANGED config

Statistics ==
    /\ cret' = [kind |-> "stats", value |-> GetStatistics(config, Sim)]
    /\ ccall' = [op |-> "get_statistics"]
    /\ UNCHANGED <<config, cache, hits, misses, accesses, hit_rate_history>>

SpecInit == CacheInit /\ NoGen /\ alog = <<>> /\ NoHeap /\ NoDash

\* ---- Spec: access, reset and get_statistics called directly ----
\* alog is not a field of the simulator: it records the addresses given to
\* access() since the last reset(), for the properties that speak of the
\* past of a cache set.
Next ==
    \/ \E address \in Addresses :
            /\ accesses < MaxDirect
            /\ Access(address)
            /\ alog' = Append(alog, address)
            /\ UNCHANGED <<genVars, heapVars, dashVars>>
    \/ Reset /\ alog' = <<>> /\ UNCHANGED <<genVars, heapVars, dashVars>>
    \/ Statistics /\ UNCHANGED <<genVars, alog, heapVars, dashVars>>

Spec == SpecInit /\ [][Next]_vars

\* ---- SpecReplay: traces replayed, between direct accesses and resets ----
\* A direct access is explored while the accesses counter is below MaxPrior,
\* and once more right after a replay.
ReplayNext ==
    \/ \E address \in Addresses :
            /\ accesses < MaxPrior \/ ccall.op = "simulate_accesses"
            /\ Access(address)
            /\ UNCHANGED <<genVars, alog, heapVars, dashVars>>
    \/ Reset /\ UNCHANGED <<genVars, alog, heapVars, dashVars>>
    \/ \E run \in ReplayRuns, bases_arg \in BasesArgs :
            /\ SimulateAccesses(run.tracks, run.matrix_size, bases_arg)
            /\ UNCHANGED <<genVars, alog, heapVars, dashVars>>

SpecReplay == SpecInit /\ [][ReplayNext]_vars

\* ---- SpecCtor: the constructor called with any geometry ----
\* __init__(cache_size, line_size, associativity, element_size): the two
\* floor divisions of lines 33-34 raise ZeroDivisionError on a zero
\* divisor; nothing else is checked.
ConstructOp(cache_size, line_size, associativity, element_size) ==
    IF line_size = 0 \/ associativity = 0
    THEN [kind |-> "ZeroDivisionError",
          cfg |-> None]
    ELSE [kind |-> "ok",
          cfg |-> Geometry(cache_size, line_size, associativity, element_size)]

\* access(address) on a simulator of any geometry: _parse_address divides
\* by num_sets (ZeroDivisionError when it is 0) and self.cache[set_index]
\* raises KeyError when there is no such set, both before any counter moves.
AccessCall(cfg, c, address) ==
    IF cfg.num_sets = 0
    THEN [c |-> c, ret |-> [kind |-> "ZeroDivisionError", value |-> <<>>]]
    ELSE IF ParseAddress(cfg, address).set_index \notin DOMAIN c.cache
    THEN [c |-> c, ret |-> [kind |-> "KeyError", value |-> <<>>]]
    ELSE LET r == AccessOp(cfg, c, address)
         IN  [c |-> r.c, ret |-> [kind |-> "bool", value |-> r.hit]]

\* constructor arguments explored: valid and invalid geometries
CtorCacheSizes == {-256, 0, 100, 256}

CtorLineSizes == {-64, 0, 64}

CtorAssociativities == {-1, 0, 1, 3, 8}

CtorElementSizes == {0, 8}

\* no CacheSimulator has been constructed yet
CtorInit == NoGen /\ NoCache /\ NoHeap /\ NoDash

Construct ==
    \E cs \in CtorCacheSizes, ls \in CtorLineSizes,
       as \in CtorAssociativities, es \in CtorElementSizes :
        LET r == ConstructOp(cs, ls, as, es) IN
        /\ ccall = NoCall
        /\ ccall' = [op |-> "__init__", cache_size |-> cs, line_size |-> ls,
                     associativity |-> as, element_size |-> es]
        /\ cret' = [kind |-> r.kind, value |-> <<>>]
        /\ config' = r.cfg
        /\ IF r.kind = "ok" THEN SetSim(NewCache(r.cfg)) ELSE SetSim(Sim)

AccessAny(address) ==
    /\ config # None
    /\ LET r == AccessCall(config, Sim, address) IN
        /\ SetSim(r.c)
        /\ cret' = r.ret
    /\ ccall' = [op |-> "access", address |-> address]
    /\ UNCHANGED config

CtorNext ==
    \/ Construct /\ UNCHANGED <<genVars, alog, heapVars, dashVars>>
    \/ \E address \in Addresses :
            /\ accesses < MaxPrior
            /\ AccessAny(address)
            /\ UNCHANGED <<genVars, alog, heapVars, dashVars>>

SpecCtor == CtorInit /\ [][CtorNext]_vars

\* ---- SpecParse: _parse_address called on a constructed simulator ----
\* the simulators of Configs and two with 16-byte lines
ParseConfigs == Configs \cup {Geometry(64, 16, as, 8) : as \in 1..2}

ParseInit ==
    /\ config \in ParseConfigs
    /\ cache = NewCache(config).cache
    /\ hits = 0 /\ misses = 0 /\ accesses = 0 /\ hit_rate_history = <<>>
    /\ ccall = NoCall /\ cret = NoRet
    /\ NoGen /\ alog = <<>> /\ NoHeap /\ NoDash

\* _parse_address(address) returns (tag, set_index, block_offset)
Parse(address) ==
    /\ LET pa == ParseAddress(config, address) IN
        cret' = [kind |-> "tuple",
                 value |-> <<pa.tag, pa.set_index, pa.block_offset>>]
    /\ ccall' = [op |-> "_parse_address", address |-> address]
    /\ UNCHANGED <<config, cache, hits, misses, accesses, hit_rate_history>>

ParseNext ==
    \E address \in 0..MaxAddress : Parse(address) /\ UNCHANGED <<genVars, alog, heapVars, dashVars>>

SpecParse == ParseInit /\ [][ParseNext]_vars

\* ---- SpecAddr: one event replayed on a new simulator, for any matrix ----
\* ---- size and any coordinates                                       ----
\* the coordinates tried for a matrix of size nn: the corners, and the
\* nearest values outside [0, nn)
Coords(nn) == {-1, 0, nn - 1, nn}

\* the one-event traces replayed: the event of any (i, j, k) of Coords
CornerTraces(nn) ==
    {RecordAccess(i, j, k) : i \in Coords(nn), j \in Coords(nn), k \in Coords(nn)}

\* the matrix sizes tried: the smallest, and those next to MaxMatrixSize
MatrixSizes == {nn \in 1..MaxMatrixSize : nn <= 4 \/ nn >= MaxMatrixSize - 4}

AddrNext ==
    \E nn \in MatrixSizes :
        \E trk \in CornerTraces(nn), bases_arg \in BasesArgs :
            /\ ccall = NoCall
            /\ SimulateAccesses(trk, nn, bases_arg)
            /\ UNCHANGED <<genVars, alog, heapVars, dashVars>>

SpecAddr == SpecInit /\ [][AddrNext]_vars

\* ---- SpecAlias: the generator, with the identity of its list objects ----
\* ResetRef that empties the list in place (self.tracks.clear())
ResetRef_ClearInPlace(hp, ref) ==
    [heap |-> [hp EXCEPT ![ref] = <<>>], ref |-> ref]

\* self.tracks = []: a new, empty list object is created and self.tracks
\* is bound to it; the list it was bound to before is left as it is
ResetRef(hp, ref) ==
    [heap |-> Append(hp, <<>>), ref |-> Len(hp) + 1]

\* self.tracks.append(...) for each event: the list object is extended in
\* place
AppendAll(hp, ref, events) == [hp EXCEPT ![ref] = @ \o events]

\* loop_order arguments explored
AliasOrders == {"ijk", "kji", "abc"}

\* __init__: self.tracks = [] creates the first list object
AliasInit ==
    /\ n \in 1..MaxAliasN
    /\ \E bs_arg \in {None, Some(1)} : block_size = InitBlockSize(n, bs_arg)
    /\ tracks = <<>>
    /\ access_count = ZeroCount
    /\ gcall = NoCall
    /\ gret = NoRet
    /\ heap = << <<>> >>
    /\ tracks_ref = 1
    /\ held = <<>>
    /\ NoCache /\ NoDash

\* simulate: reset() rebinds self.tracks, the loops append to the list it is
\* bound to, and return self.tracks hands that very list to the caller
AliasSimulate ==
    \E loop_order \in AliasOrders, blocked \in BOOLEAN :
        LET r == ResetRef(heap, tracks_ref)
            events == IF loop_order \notin LOOP_ORDERS THEN <<>>
                      ELSE IF blocked THEN SimulateBlocked(n, block_size, loop_order)
                      ELSE SimulateUnblocked(n, loop_order)
            hp == AppendAll(r.heap, r.ref, events)
        IN  /\ Len(heap) < MaxLists
            /\ Simulate(loop_order, blocked)
            /\ heap' = hp
            /\ tracks_ref' = r.ref
            /\ held' = IF loop_order \in LOOP_ORDERS
                       THEN Append(held, [ref |-> r.ref, value |-> hp[r.ref]])
                       ELSE held

AliasReset ==
    LET r == ResetRef(heap, tracks_ref) IN
    /\ Len(heap) < MaxLists
    /\ GenReset
    /\ heap' = r.heap
    /\ tracks_ref' = r.ref
    /\ UNCHANGED held

AliasNext ==
    \/ AliasSimulate /\ UNCHANGED <<cacheVars, alog, dashVars>>
    \/ AliasReset /\ UNCHANGED <<cacheVars, alog, dashVars>>

SpecAlias == AliasInit /\ [][AliasNext]_vars

\* ---- SpecSample: replays that end next to a multiple of 100 accesses, ----
\* ---- followed by direct accesses across it                            ----
\* the traces replayed: the first 24 and the first 49 events of a generated
\* trace of n = 4 (96 and 196 accesses), and the whole trace (256 accesses)
SampleRuns ==
    LET trk == SimulateGen(4, 2, "kji", TRUE).ret.value
    IN  {[tracks |-> SubSeq(trk, 1, 24), matrix_size |-> 4],
         [tracks |-> SubSeq(trk, 1, 49), matrix_size |-> 4],
         [tracks |-> trk, matrix_size |-> 4]}

\* direct accesses are explored from 4 accesses before a multiple of 100
\* up to MaxSampleOver accesses after it
SampleNext ==
    \/ \E address \in Addresses :
            /\ accesses > 0
            /\ \/ accesses % SamplePeriod >= SamplePeriod - 4
               \/ accesses % SamplePeriod < MaxSampleOver
            /\ Access(address)
            /\ UNCHANGED <<genVars, alog, heapVars, dashVars>>
    \/ \E run \in SampleRuns, bases_arg \in BasesArgs :
            /\ ccall.op \in {"none", "simulate_accesses"}
            /\ SimulateAccesses(run.tracks, run.matrix_size, bases_arg)
            /\ UNCHANGED <<genVars, alog, heapVars, dashVars>>

SpecSample == SpecInit /\ [][SampleNext]_vars

(***************************************************************************)
(* The dashboard (interactive_viz.py)                                      *)
(***************************************************************************)
\* the values of matrix-size-slider: min=4, max=32, step=2
MatrixSizeValues == {nn \in 4 .. 32 : nn % 2 = 0}

\* update_simulation: cache_size = max(4096, n * n * 8)
DashCacheSize(nn) == Max(4096, nn * nn * 8)

\* update_simulation: CacheSimulator(cache_size=cache_size, line_size=64,
\* associativity=4), element_size left at its default of 8
DashCache(nn) == ConstructOp(DashCacheSize(nn), 64, 4, 8)

\* the module-level simulation_data before any callback has run
EmptyData ==
    [simulator |-> None, tracks |-> <<>>, current_frame |-> 0,
     cache_stats |-> None, heatmaps |-> None]

\* update_simulation(n, block_size, loop_order, blocked, reset_clicks): the
\* simulation_data it stores and the frame-slider max and animation-state
\* it returns (the marks and the statistics panel are presentation only);
\* an exception of simulate leaves simulation_data as it was.
UpdateSimulationOp(data, nn, bs, loop_order, blocked) ==
    LET bs_arg == IF blocked THEN Some(bs) ELSE None
        stored_bs == InitBlockSize(nn, bs_arg)
        \* sim: the generator after sim.simulate(loop_order, blocked) and
        \* what the call returned; cfg: the CacheSimulator constructed
        Body(sim, cfg) ==
            IF sim.ret.kind # "trace"
            THEN [kind |-> sim.ret.kind, data |-> data]
            ELSE [kind |-> "ok",
                  data |-> [data EXCEPT
                      !.simulator = Some([n |-> nn, block_size |-> stored_bs]),
                      !.tracks = sim.ret.value,
                      !.cache_stats =
                          Some(SimulateAccessesOp(cfg, NewCache(cfg),
                                                  sim.ret.value, nn, None).stats),
                      !.heatmaps = Some(HeatmapData(sim.g, nn))],
                  max_frame |-> Len(sim.ret.value) - 1,
                  state |-> [playing |-> FALSE, frame |-> 0]]
    IN  Body(SimulateGen(nn, stored_bs, loop_order, blocked), DashCache(nn).cfg)

\* control_animation: the play button enables the interval and sets
\* playing, the pause button disables it and clears playing
ControlAnimationOp(button_id, state) ==
    IF button_id = "play-button"
    THEN [disabled |-> FALSE, state |-> [state EXCEPT !.playing = TRUE]]
    ELSE [disabled |-> TRUE, state |-> [state EXCEPT !.playing = FALSE]]

\* UpdateFrameOp whose tick adds the increment without clamping the frame
\* to max_frame
UpdateFrameOp_Unclamped(trigger_id, slider_value, state, max_frame, speed) ==
    IF trigger_id = "reset-button"
    THEN [value |-> 0, state |-> [playing |-> FALSE, frame |-> 0]]
    ELSE IF trigger_id = "frame-slider"
    THEN [value |-> slider_value, state |-> [state EXCEPT !.frame = slider_value]]
    ELSE IF trigger_id = "animation-interval" /\ state.playing
    THEN LET increment == Max(1, speed \div 10)
             new_frame == state.frame + increment
         IN  IF new_frame >= max_frame
             THEN [value |-> new_frame,
                   state |-> [playing |-> FALSE, frame |-> new_frame]]
             ELSE [value |-> new_frame,
                   state |-> [state EXCEPT !.frame = new_frame]]
    ELSE [value |-> state.frame, state |-> state]

\* update_frame(n_intervals, slider_value, reset_clicks, state, max_frame,
\* speed) for the triggering component: the frame-slider value and the
\* animation-state it returns
UpdateFrameOp(trigger_id, slider_value, state, max_frame, speed) ==
    IF trigger_id = "reset-button"
    THEN [value |-> 0, state |-> [playing |-> FALSE, frame |-> 0]]
    ELSE IF trigger_id = "frame-slider"
    THEN [value |-> slider_value, state |-> [state EXCEPT !.frame = slider_value]]
    ELSE IF trigger_id = "animation-interval" /\ state.playing
    THEN LET increment == Max(1, speed \div 10)
             new_frame == state.frame + increment
         IN  IF new_frame >= max_frame
             THEN [value |-> max_frame,
                   state |-> [playing |-> FALSE, frame |-> max_frame]]
             ELSE [value |-> new_frame,
                   state |-> [state EXCEPT !.frame = new_frame]]
    ELSE [value |-> state.frame, state |-> state]

\* update_visualizations(frame, n): empty figures when there is no trace;
\* otherwise the access tracks[min(frame, len(tracks) - 1)] is drawn into
\* np.zeros((n, n)) grids, and grid[pos[0], pos[1]] = 1 raises IndexError
\* when a coordinate is not below n.
VisualizeOp(data, frame, nn) ==
    IF data.tracks = <<>>
    THEN [kind |-> "empty"]
    ELSE LET f == Min(frame, Len(data.tracks) - 1)
             current_access == data.tracks[f + 1]
         IN  IF \E m \in 1..3 : current_access[m][1] >= nn
                                \/ current_access[m][2] >= nn
             THEN [kind |-> "IndexError", frame |-> f, n |-> nn,
                   current_access |-> current_access]
             ELSE [kind |-> "figures", frame |-> f, n |-> nn,
                   current_access |-> current_access,
                   trace_length |-> Len(data.tracks)]

\* ---- SpecDashCache: the CacheSimulator update_simulation constructs, ----
\* ---- for every value of the matrix-size slider                       ----
DashConstruct ==
    \E nn \in MatrixSizeValues :
        LET r == DashCache(nn) IN
        /\ ccall = NoCall
        /\ ccall' = [op |-> "__init__", cache_size |-> DashCacheSize(nn),
                     line_size |-> 64, associativity |-> 4, element_size |-> 8]
        /\ cret' = [kind |-> r.kind, value |-> <<>>]
        /\ config' = r.cfg
        /\ SetSim(NewCache(r.cfg))

DashCacheNext ==
    \/ DashConstruct /\ UNCHANGED <<genVars, alog, heapVars, dashVars>>
    \/ \E address \in Addresses :
            /\ accesses < MaxPrior
            /\ AccessAny(address)
            /\ UNCHANGED <<genVars, alog, heapVars, dashVars>>

SpecDashCache == CtorInit /\ [][DashCacheNext]_vars

\* ---- SpecDash: the callbacks that share simulation_data ----
\* matrix sizes, loop orders and frame-slider positions the user selects
DashSizes == {nn \in MatrixSizeValues : nn <= MaxDashN}

DashOrders == {"kji", "ijk"}

FrameChoices(max_frame) == {0, max_frame \div 2, max_frame}

\* the page once the callbacks of the user's last change have all returned:
\* block size 4, blocking on and speed 10 as in the layout, animation
\* stopped at frame 0
SettledAfter(r, nn, loop_order, speed) ==
    [ui |-> [n |-> nn, block_size |-> 4, loop_order |-> loop_order,
             blocked |-> TRUE, frame |-> 0, max_frame |-> r.max_frame,
             speed |-> speed, state |-> r.state,
             interval_disabled |-> TRUE, triggered |-> "none"],
     simulation_data |-> r.data,
     rendered |-> VisualizeOp(r.data, 0, nn)]

Settled(nn, loop_order, speed) ==
    SettledAfter(UpdateSimulationOp(EmptyData, nn, 4, loop_order, TRUE),
                 nn, loop_order, speed)

DashInit ==
    /\ \E nn \in DashSizes : \E st \in {Settled(nn, "kji", 10)} :
          /\ ui = st.ui
          /\ simulation_data = st.simulation_data
          /\ rendered = st.rendered
    /\ pending = EmptyBag
    /\ user_events = 0
    /\ NoGen /\ NoCache /\ NoHeap

\* the requests of the callbacks update_simulation and update_visualizations
\* with the input values of the moment they are triggered
SimulationRequest(u) ==
    [callback |-> "update_simulation", n |-> u.n, block_size |-> u.block_size,
     loop_order |-> u.loop_order, blocked |-> u.blocked]

VisualizationRequest(u) ==
    [callback |-> "update_visualizations", frame |-> u.frame, n |-> u.n]

\* the requests in flight form a bag: the server may run them in any order
Sent(bag, req) == bag (+) SetToBag({req})

Answered(bag, req) == bag (-) SetToBag({req})

\* the user moves matrix-size-slider: an Input of update_simulation and of
\* update_visualizations, which are both triggered
ChangeMatrixSize ==
    \E nn \in DashSizes \ {ui.n} :
        LET u == [ui EXCEPT !.n = nn, !.triggered = "matrix-size-slider"] IN
        /\ user_events < MaxDashEvents
        /\ user_events' = user_events + 1
        /\ ui' = u
        /\ pending' = Sent(Sent(pending, SimulationRequest(u)),
                            VisualizationRequest(u))
        /\ UNCHANGED <<simulation_data, rendered>>

\* the user picks another loop order: an Input of update_simulation only
ChangeLoopOrder ==
    \E loop_order \in DashOrders \ {ui.loop_order} :
        LET u == [ui EXCEPT !.loop_order = loop_order,
                            !.triggered = "loop-order-dropdown"] IN
        /\ user_events < MaxDashEvents
        /\ user_events' = user_events + 1
        /\ ui' = u
        /\ pending' = Sent(pending, SimulationRequest(u))
        /\ UNCHANGED <<simulation_data, rendered>>

\* the user moves frame-slider: update_frame stores the value in the
\* animation state, and update_visualizations is triggered with it
MoveFrameSlider ==
    \E f \in FrameChoices(ui.max_frame) \ {ui.frame} :
        LET r == UpdateFrameOp("frame-slider", f, ui.state, ui.max_frame, ui.speed)
            u == [ui EXCEPT !.frame = r.value, !.state = r.state,
                            !.triggered = "frame-slider"] IN
        /\ user_events < MaxDashEvents
        /\ user_events' = user_events + 1
        /\ ui' = u
        /\ pending' = Sent(pending, VisualizationRequest(u))
        /\ UNCHANGED <<simulation_data, rendered>>

\* the server runs a pending update_simulation
RunUpdateSimulation ==
    \E req \in {q \in BagToSet(pending) : q.callback = "update_simulation"} :
    \E r \in {UpdateSimulationOp(simulation_data, req.n, req.block_size,
                                 req.loop_order, req.blocked)} :
        /\ simulation_data' = r.data
        /\ ui' = IF r.kind = "ok"
                 THEN [ui EXCEPT !.max_frame = r.max_frame, !.state = r.state]
                 ELSE ui
        /\ pending' = Answered(pending, req)
        /\ UNCHANGED <<rendered, user_events>>

\* the server runs a pending update_visualizations
RunUpdateVisualizations ==
    \E req \in {q \in BagToSet(pending) : q.callback = "update_visualizations"} :
        /\ rendered' = VisualizeOp(simulation_data, req.frame, req.n)
        /\ pending' = Answered(pending, req)
        /\ UNCHANGED <<ui, simulation_data, user_events>>

DashNext ==
    \/ ChangeMatrixSize /\ UNCHANGED <<genVars, cacheVars, alog, heapVars>>
    \/ ChangeLoopOrder /\ UNCHANGED <<genVars, cacheVars, alog, heapVars>>
    \/ MoveFrameSlider /\ UNCHANGED <<genVars, cacheVars, alog, heapVars>>
    \/ RunUpdateSimulation /\ UNCHANGED <<genVars, cacheVars, alog, heapVars>>
    \/ RunUpdateVisualizations /\ UNCHANGED <<genVars, cacheVars, alog, heapVars>>

SpecDash == DashInit /\ [][DashNext]_vars

\* ---- SpecPlay: playback on a settled page of matrix size 4; every ----
\* ---- event's callbacks return before the next event                ----
\* positions of speed-slider (min=1, max=100): increments 1, 2 and 10
SpeedValues == {1, 25, 100}

PlayInit ==
    /\ \E speed \in SpeedValues : \E st \in {Settled(4, "kji", speed)} :
          /\ ui = st.ui
          /\ simulation_data = st.simulation_data
          /\ rendered = st.rendered
    /\ pending = EmptyBag
    /\ user_events = 0
    /\ NoGen /\ NoCache /\ NoHeap

\* a click on play-button runs control_animation
PressPlay ==
    LET r == ControlAnimationOp("play-button", ui.state) IN
    /\ user_events < MaxUserEvents
    /\ user_events' = user_events + 1
    /\ ui' = [ui EXCEPT !.state = r.state, !.interval_disabled = r.disabled,
                        !.triggered = "play-button"]
    /\ UNCHANGED <<simulation_data, pending, rendered>>
    /\ UNCHANGED <<genVars, cacheVars, alog, heapVars>>

\* a click on pause-button runs control_animation
PressPause ==
    LET r == ControlAnimationOp("pause-button", ui.state) IN
    /\ user_events < MaxUserEvents
    /\ user_events' = user_events + 1
    /\ ui' = [ui EXCEPT !.state = r.state, !.interval_disabled = r.disabled,
                        !.triggered = "pause-button"]
    /\ UNCHANGED <<simulation_data, pending, rendered>>
    /\ UNCHANGED <<genVars, cacheVars, alog, heapVars>>

\* a click on reset-button is an Input of update_frame and of
\* update_simulation; the new frame-slider value triggers
\* update_visualizations
PressReset ==
    \E sim \in {UpdateSimulationOp(simulation_data, ui.n, ui.block_size,
                                   ui.loop_order, ui.blocked)} :
        LET r == UpdateFrameOp("reset-button", ui.frame, ui.state,
                               ui.max_frame, ui.speed) IN
        /\ user_events < MaxUserEvents
        /\ user_events' = user_events + 1
        /\ simulation_data' = sim.data
        /\ ui' = [ui EXCEPT !.frame = r.value, !.state = r.state,
                            !.max_frame = sim.max_frame,
                            !.triggered = "reset-button"]
        /\ rendered' = VisualizeOp(sim.data, r.value, ui.n)
        /\ UNCHANGED pending
        /\ UNCHANGED <<genVars, cacheVars, alog, heapVars>>

\* the user moves frame-slider: update_frame, then update_visualizations
SlideFrame ==
    \E f \in FrameChoices(ui.max_frame) \ {ui.frame} :
        LET r == UpdateFrameOp("frame-slider", f, ui.state, ui.max_frame, ui.speed) IN
        /\ user_events < MaxUserEvents
        /\ user_events' = user_events + 1
        /\ ui' = [ui EXCEPT !.frame = r.value, !.state = r.state,
                            !.triggered = "frame-slider"]
        /\ rendered' = VisualizeOp(simulation_data, r.value, ui.n)
        /\ UNCHANGED <<simulation_data, pending>>
        /\ UNCHANGED <<genVars, cacheVars, alog, heapVars>>

\* the user moves speed-slider, which is a State of update_frame only: no
\* callback runs
SetSpeed ==
    \E speed \in SpeedValues \ {ui.speed} :
        /\ user_events < MaxUserEvents
        /\ user_events' = user_events + 1
        /\ ui' = [ui EXCEPT !.speed = speed]
        /\ UNCHANGED <<simulation_data, pending, rendered>>
        /\ UNCHANGED <<genVars, cacheVars, alog, heapVars>>

\* animation-interval fires (every 100 ms while it is not disabled):
\* update_frame, then update_visualizations with the frame it returns
Tick ==
    LET r == UpdateFrameOp("animation-interval", ui.frame, ui.state,
                           ui.max_frame, ui.speed) IN
    /\ ~ui.interval_disabled
    /\ ui' = [ui EXCEPT !.frame = r.value, !.state = r.state,
                        !.triggered = "animation-interval"]
    /\ rendered' = VisualizeOp(simulation_data, r.value, ui.n)
    /\ UNCHANGED <<simulation_data, pending, user_events>>
    /\ UNCHANGED <<genVars, cacheVars, alog, heapVars>>

PlayNext ==
    \/ PressPlay
    \/ PressPause
    \/ PressReset
    \/ SlideFrame
    \/ SetSpeed
    \/ Tick

SpecPlay == PlayInit /\ [][PlayNext]_vars

\* the interval timer keeps firing while it is enabled
SpecPlayFair == SpecPlay /\ WF_vars(Tick)

(***************************************************************************)
(* Properties of the trace generator (checked under SpecGen).              *)
(***************************************************************************)
\* the last call was a simulate that returned a trace, unblocked or blocked
\* with a tile size in 1..n
TraceReturned ==
    /\ gcall.op = "simulate"
    /\ gret.kind = "trace"
    /\ (gcall.blocked => block_size \in 1..n)

\* the event of the scalar multiply-accumulate (i, j, k)
MacEvent(i, j, k) == <<<<i, k>>, <<k, j>>, <<i, j>>>>

\* for each loop order, the nesting depth (1 outermost .. 3 innermost) of
\* each of the loop variables
Depth ==
    [o \in LOOP_ORDERS |->
        CASE o = "ijk" -> [i |-> 1, j |-> 2, k |-> 3]
          [] o = "ikj" -> [i |-> 1, k |-> 2, j |-> 3]
          [] o = "jik" -> [j |-> 1, i |-> 2, k |-> 3]
          [] o = "jki" -> [j |-> 1, k |-> 2, i |-> 3]
          [] o = "kij" -> [k |-> 1, i |-> 2, j |-> 3]
          [] o = "kji" -> [k |-> 1, j |-> 2, i |-> 3]]

\* C1: for every n >= 1, every loop order and both modes (blocked with any
\* tile size in 1..n), the trace simulate returns has length exactly n^3.
C1_TraceLength ==
    TraceReturned => Len(gret.value) = n * n * n

\* C1 witness: a blocked run whose tile size does not divide n returned
\* its n^3 events.
C1_Witness ==
    /\ TraceReturned /\ gcall.blocked
    /\ n = 3 /\ block_size = 2 /\ Len(gret.value) = 27

\* C2: in every generation mode, clipped boundary tiles included, every
\* event is ((i,k),(k,j),(i,j)) for some i, j, k in [0,n), and each (i,j,k)
\* of [0,n)^3 occurs in the trace exactly once.
C2_EachTripleOnce ==
    TraceReturned =>
        LET t == gret.value
            Idx == 0 .. n - 1
        IN  /\ \A p \in 1..Len(t) :
                  \E i \in Idx, j \in Idx, k \in Idx : t[p] = MacEvent(i, j, k)
            /\ \A i \in Idx, j \in Idx, k \in Idx :
                  Cardinality({p \in 1..Len(t) : t[p] = MacEvent(i, j, k)}) = 1

\* C2 witness: a blocked run with clipped boundary tiles (n = 3, tile 2)
\* emitted the last triple (2,2,2), and an unblocked run emitted it too.
C2_Witness ==
    /\ TraceReturned /\ gcall.blocked /\ gcall.loop_order = "kji"
    /\ n = 3 /\ block_size = 2
    /\ \E p \in 1..Len(gret.value) : gret.value[p] = MacEvent(2, 2, 2)

\* C3: in unblocked mode with loop order xyz the event at 0-based position
\* p is the one with x = p div n^2, y = (p div n) mod n, z = p mod n; for
\* n = 4 and 'ijk' the first two events are ((0,0),(0,0),(0,0)) and
\* ((0,1),(1,0),(0,0)).
C3_UnblockedOrder ==
    (TraceReturned /\ ~gcall.blocked) =>
        LET t == gret.value
            d == Depth[gcall.loop_order]
            At(p) == << p \div (n * n), (p \div n) % n, p % n >>
        IN  /\ Len(t) = n * n * n
            /\ \A p \in 0 .. Len(t) - 1 :
                  t[p + 1] = MacEvent(At(p)[d.i], At(p)[d.j], At(p)[d.k])
            /\ (n = 4 /\ gcall.loop_order = "ijk") =>
                  /\ t[1] = <<<<0, 0>>, <<0, 0>>, <<0, 0>>>>
                  /\ t[2] = <<<<0, 1>>, <<1, 0>>, <<0, 0>>>>

\* C3 witness: the n = 4 'ijk' unblocked run of the example, and its
\* second event.
C3_Witness ==
    /\ TraceReturned /\ ~gcall.blocked /\ gcall.loop_order = "ijk"
    /\ n = 4 /\ Len(gret.value) = 64
    /\ gret.value[2] = <<<<0, 1>>, <<1, 0>>, <<0, 0>>>>

\* C4: in blocked mode the tile origins are visited in the nested order of
\* the loop order in strides of the tile size, the events of one tile are
\* contiguous, and inside every tile the order is i outermost, j, k
\* innermost whatever the loop order.
\* With T tiles per axis, tile number q (0-based) has the origin whose
\* coordinate at nesting depth 1 is (q div T^2)*bs, at depth 2
\* ((q div T) mod T)*bs and at depth 3 (q mod T)*bs; the trace is the tiles'
\* events one tile after the other.
BlockedExpected(nn, bs, loop_order) ==
    LET T == (nn + bs - 1) \div bs
        d == Depth[loop_order]
        Origin(q) == << (q \div (T * T)) * bs, ((q \div T) % T) * bs, (q % T) * bs >>
        Size(base) == Min(base + bs, nn) - base
        Tile(q) ==
            LET ib == Origin(q)[d.i]
                jb == Origin(q)[d.j]
                kb == Origin(q)[d.k]
                sj == Size(jb)
                sk == Size(kb)
            IN  [r \in 1 .. Size(ib) * sj * sk |->
                    MacEvent(ib + ((r - 1) \div (sj * sk)),
                             jb + (((r - 1) \div sk) % sj),
                             kb + ((r - 1) % sk))]
    IN  Concat([q \in 1 .. T * T * T |-> Tile(q - 1)])

C4_BlockedOrder ==
    (TraceReturned /\ gcall.blocked) =>
        gret.value = BlockedExpected(n, block_size, gcall.loop_order)

\* C4 witness: n = 4 in tiles of 2 under 'kji': the second tile has the
\* origin (i,j,k) = (2,0,0), and its first two events step k, not i.
C4_Witness ==
    /\ TraceReturned /\ gcall.blocked /\ gcall.loop_order = "kji"
    /\ n = 4 /\ block_size = 2
    /\ gret.value[9] = MacEvent(2, 0, 0)
    /\ gret.value[10] = MacEvent(2, 0, 1)
(***************************************************************************)
(* Properties of the cache simulator (checked under Spec and SpecReplay).  *)
(***************************************************************************)
\* the tags a cache set holds
Tags(cache_set) == {cache_set[p] : p \in DOMAIN cache_set}

\* the set index and the tag of the address at position p of the log
LogSet(p) == ParseAddress(config, alog[p]).set_index

LogTag(p) == ParseAddress(config, alog[p]).tag

\* the position in the log of the most recent access to tag t of set s
LastUse(s, t) ==
    CHOOSE p \in DOMAIN alog :
        /\ LogSet(p) = s /\ LogTag(p) = t
        /\ \A q \in DOMAIN alog : (LogSet(q) = s /\ LogTag(q) = t) => q <= p

\* the step is a call of access
AccessStep == ccall'.op = "access"

\* C5: after any sequence of access calls every cache set holds at most
\* `associativity` tags, and the tags of a set are pairwise distinct.
C5_Capacity ==
    \A s \in DOMAIN cache :
        /\ Len(cache[s]) <= config.associativity
        /\ \A p \in DOMAIN cache[s], q \in DOMAIN cache[s] :
              cache[s][p] = cache[s][q] => p = q

\* C5 witness: a one-set, two-way cache that has missed three times (so
\* has evicted) and is full.
C5_Witness ==
    /\ config.num_sets = 1 /\ config.associativity = 2
    /\ misses >= 3 /\ Len(cache[0]) = 2

\* C6: a miss into a set that holds `associativity` tags evicts exactly one
\* tag, the one whose most recent access is the oldest; a miss into a set
\* with fewer tags evicts nothing.  With associativity 2, the accesses
\* A, B, A, C to one set give exactly one hit and leave A and C.
C6_MissStep ==
    (AccessStep /\ ~cret'.value) =>
        LET pa == ParseAddress(config, ccall'.address)
            s == pa.set_index
            before == Tags(cache[s])
            after == Tags(cache'[s])
        IN  IF Cardinality(before) = config.associativity
            THEN \E v \in before :
                    /\ before \ after = {v}
                    /\ after = (before \ {v}) \cup {pa.tag}
                    /\ \A w \in before : LastUse(s, v) <= LastUse(s, w)
            ELSE after = before \cup {pa.tag}

\* the log is A, B, A, C: four accesses to one set, the third to the tag
\* of the first, the second and the fourth to two other tags
IsABAC ==
    /\ Len(alog) = 4
    /\ \A p \in 1..4 : LogSet(p) = LogSet(1)
    /\ LogTag(3) = LogTag(1)
    /\ LogTag(2) # LogTag(1)
    /\ LogTag(4) \notin {LogTag(1), LogTag(2)}

C6_ABAC ==
    (config.associativity = 2 /\ IsABAC) =>
        /\ hits = 1
        /\ Tags(cache[LogSet(1)]) = {LogTag(1), LogTag(4)}

C6_LruEviction == [][C6_MissStep]_vars /\ []C6_ABAC

\* C6 witness: A, B, A, C went into one set of a two-way cache; B is gone,
\* A and C are held.
C6_Witness ==
    /\ config.associativity = 2 /\ IsABAC
    /\ ccall.op = "access" /\ ~cret.value
    /\ LogTag(2) \notin Tags(cache[LogSet(1)])
    /\ LogTag(1) \in Tags(cache[LogSet(1)])

\* C7: in every state reachable by access, reset and simulate_accesses
\* calls hits + misses = accesses, and every access call adds exactly 1 to
\* accesses and exactly 1 to the one of hits, misses that matches the
\* boolean it returns.
C7_AccessCounts ==
    AccessStep =>
        /\ accesses' = accesses + 1
        /\ cret'.value => (hits' = hits + 1 /\ misses' = misses)
        /\ ~cret'.value => (misses' = misses + 1 /\ hits' = hits)

C7_Counters == [](hits + misses = accesses) /\ [][C7_AccessCounts]_vars

\* C7 witness: a direct access right after a replay of 27 events hit.
C7_Witness ==
    /\ ccall.op = "access" /\ cret.value
    /\ accesses = 109 /\ hits + misses = 109

\* C8: the statistics report hit_rate = 100*hits/accesses when accesses > 0
\* and 0 when accesses = 0, and miss_rate = 100 - hit_rate, so that the two
\* sum to 100 whenever accesses > 0.  (Rates are exact fractions
\* <<numerator, denominator>>.)
C8_Rates ==
    cret.kind = "stats" =>
        LET st == cret.value
            hr == st.hit_rate
            mr == st.miss_rate
        IN  /\ st.total_accesses = accesses /\ st.hits = hits
            /\ hr[2] > 0 /\ mr[2] > 0
            /\ accesses > 0 => hr[1] * accesses = 100 * hits * hr[2]
            /\ accesses = 0 => hr[1] = 0
            /\ mr[1] * hr[2] = (100 * hr[2] - hr[1]) * mr[2]
            /\ accesses > 0 => hr[1] * mr[2] + mr[1] * hr[2] = 100 * hr[2] * mr[2]

\* C8 witness: statistics taken after one hit in three accesses (a rate
\* of 100/3).
C8_Witness ==
    /\ ccall.op = "get_statistics" /\ cret.kind = "stats"
    /\ cret.value.hits = 1 /\ cret.value.total_accesses = 3

\* C9: simulate_accesses performs, for every event of the trace in trace
\* order, exactly four accesses in the order A[a_pos], B[b_pos], C[c_pos],
\* C[c_pos]; total_accesses is 4 * len(trace), 4*n^3 for a generated trace.
C9_FourAccesses ==
    ccall.op = "simulate_accesses" =>
        LET trk == ccall.tracks
            nn == ccall.matrix_size
            bases == IF ccall.matrix_bases = None
                     THEN DefaultBases ELSE ccall.matrix_bases[1]
            Addr(base, pos) == base + (pos[1] * nn + pos[2]) * config.element_size
            log == ccall.addresses
        IN  /\ Len(log) = 4 * Len(trk)
            /\ \A p \in 1..Len(trk) :
                  /\ log[4 * p - 3] = Addr(bases.A, trk[p][1])
                  /\ log[4 * p - 2] = Addr(bases.B, trk[p][2])
                  /\ log[4 * p - 1] = Addr(bases.C, trk[p][3])
                  /\ log[4 * p] = Addr(bases.C, trk[p][3])
            /\ cret.value.total_accesses = 4 * Len(trk)
            /\ accesses = 4 * Len(trk)
            /\ trk # <<>> => cret.value.total_accesses = 4 * nn * nn * nn

\* C9 witness: the replay of a generated trace of n = 3 made 108 accesses,
\* the second to B.
C9_Witness ==
    /\ ccall.op = "simulate_accesses" /\ ccall.matrix_size = 3
    /\ ccall.matrix_bases = None
    /\ Len(ccall.addresses) = 108 /\ accesses = 108
    /\ ccall.addresses[2] >= DefaultBases.B /\ ccall.addresses[2] < DefaultBases.C

\* C10: no state survives across replays: the statistics simulate_accesses
\* returns are those a newly constructed simulator of the same
\* configuration returns for the same trace, n and base addresses, whatever
\* access and simulate_accesses calls came before.
C10_ReplayFresh ==
    ccall.op = "simulate_accesses" =>
        LET fresh == SimulateAccessesOp(config, NewCache(config), ccall.tracks,
                                        ccall.matrix_size, ccall.matrix_bases)
        IN  /\ cret.value = fresh.stats
            /\ Sim = fresh.c

\* C10 witness: a replay that returned a sampled hit rate and some hits.
C10_Witness ==
    /\ ccall.op = "simulate_accesses"
    /\ Len(cret.value.hit_rate_history) = 1
    /\ cret.value.hits > 0
    /\ cret.value.total_accesses = 108
\* C11: reset(), called in any reachable state, empties every one of the
\* num_sets cache sets, zeroes hits, misses and accesses and empties
\* hit_rate_history, which is the state of a newly constructed simulator of
\* the same configuration, and leaves the configuration unchanged.
C11_ResetStep ==
    ccall'.op = "reset" =>
        /\ DOMAIN cache' = 0 .. config.num_sets - 1
        /\ \A s \in DOMAIN cache' : cache'[s] = <<>>
        /\ hits' = 0 /\ misses' = 0 /\ accesses' = 0
        /\ hit_rate_history' = <<>>
        /\ Sim' = NewCache(config)
        /\ config' = config

C11_Reset == [][C11_ResetStep]_vars

\* C11 witness: a reset left a four-set simulator in its initial state.
C11_Witness ==
    /\ ccall.op = "reset" /\ config.num_sets = 4
    /\ Sim = NewCache(config)
\* a geometry the specification accepts: every parameter positive,
\* line_size dividing cache_size, associativity dividing the line count
ValidGeometry(cache_size, line_size, associativity, element_size) ==
    /\ cache_size > 0 /\ line_size > 0 /\ associativity > 0 /\ element_size > 0
    /\ PyMod(cache_size, line_size) = 0
    /\ PyMod(cache_size \div line_size, associativity) = 0

\* C12: constructing a CacheSimulator with an invalid geometry fails at
\* construction: the geometry is never silently coerced, so every simulator
\* that exists has a valid geometry, num_sets >= 1 and untruncated
\* num_lines and num_sets.
C12_InvalidGeometryRejected ==
    /\ (ccall.op = "__init__" /\
        ~ValidGeometry(ccall.cache_size, ccall.line_size,
                       ccall.associativity, ccall.element_size))
          => (cret.kind # "ok" /\ config = None)
    /\ config # None =>
          /\ ValidGeometry(config.cache_size, config.line_size,
                           config.associativity, config.element_size)
          /\ config.num_sets >= 1
          /\ config.num_lines * config.line_size = config.cache_size
          /\ config.num_sets * config.associativity = config.num_lines
\* C13: trace generation in blocked mode fails with an argument error when
\* the tile size is absent, non-positive or greater than n; it never
\* returns a trace for such a tile size.  (An absent or zero block_size
\* argument is stored as n by the constructor, so the stored tile size shows
\* the negative and the too large arguments.)
C13_InvalidTileRejected ==
    (/\ gcall.op = "simulate" /\ gcall.blocked
     /\ gcall.loop_order \in LOOP_ORDERS
     /\ block_size \notin 1..n)
        => gret.kind \notin {"trace", "none"}
\* C14: simulate called with a loop_order that is not one of the six
\* orders fails with an error and returns no trace, in blocked and in
\* unblocked mode; it never falls back to a default ordering.
C14_InvalidLoopOrder ==
    (gcall.op = "simulate" /\ gcall.loop_order \notin LOOP_ORDERS) =>
        /\ gret.kind = "ValueError"
        /\ gret.value = <<>>
        /\ tracks = <<>>
        /\ access_count = ZeroCount

\* C14 witness: a blocked simulate('IJK') on a generator with n = 2 and
\* tiles of 1 raised ValueError.
C14_Witness ==
    /\ gcall.op = "simulate" /\ gcall.loop_order = "IJK" /\ gcall.blocked
    /\ n = 2 /\ block_size = 1
    /\ gret.kind = "ValueError"
\* C15: address decomposition yields block_offset = address mod line_size,
\* set_index = (address div line_size) mod num_sets and
\* tag = address div (line_size * num_sets); two non-negative addresses
\* have the same (tag, set_index) pair iff they lie in the same line
\* (a div line_size = b div line_size), and
\* address = (tag * num_sets + set_index) * line_size + block_offset with
\* 0 <= set_index < num_sets.
C15_OneAddress ==
    ccall.op = "_parse_address" =>
        LET a == ccall.address
            tag == cret.value[1]
            set_index == cret.value[2]
            block_offset == cret.value[3]
        IN  /\ block_offset = a % config.line_size
            /\ set_index = (a \div config.line_size) % config.num_sets
            /\ tag = a \div (config.line_size * config.num_sets)
            /\ 0 <= set_index /\ set_index < config.num_sets
            /\ a = (tag * config.num_sets + set_index) * config.line_size
                   + block_offset

C15_TwoAddresses ==
    (ccall.op = "_parse_address" /\ ccall'.op = "_parse_address") =>
        ((cret.value[1] = cret'.value[1] /\ cret.value[2] = cret'.value[2])
            <=> (ccall.address \div config.line_size
                    = ccall'.address \div config.line_size))

C15_Decomposition == []C15_OneAddress /\ [][C15_TwoAddresses]_vars

\* C15 witness: address 300 on a simulator with 4 sets of 64-byte lines is
\* tag 1, set 0, offset 44.
C15_Witness ==
    /\ ccall.op = "_parse_address" /\ ccall.address = 300
    /\ config.num_sets = 4 /\ config.line_size = 64
    /\ cret.value = <<1, 0, 44>>
\* C16: an access to the address of the immediately preceding access (no
\* reset in between) is always a hit; from a reset cache, accessing one
\* address twice gives one miss then one hit (hits = 1, misses = 1,
\* hit_rate = 50); and cache_size = 256, line_size = 64, associativity = 1
\* give num_sets = 4.
C16_RepeatStep ==
    (AccessStep /\ alog # <<>> /\ alog' = Append(alog, alog[Len(alog)]))
        => cret'.value = TRUE

C16_Twice ==
    /\ (Len(alog) = 2 /\ alog[1] = alog[2]) =>
          /\ hits = 1 /\ misses = 1
          /\ GetStatistics(config, Sim).hit_rate[1]
                = 50 * GetStatistics(config, Sim).hit_rate[2]
          /\ cret.kind = "stats" =>
                cret.value.hit_rate[1] = 50 * cret.value.hit_rate[2]
          /\ (ccall.op = "access") => cret.value = TRUE
    /\ (Len(alog) = 1 /\ ccall.op = "access") => cret.value = FALSE
    /\ (config.cache_size = 256 /\ config.line_size = 64
            /\ config.associativity = 1) => config.num_sets = 4

C16_RepeatedAccessHits == []C16_Twice /\ [][C16_RepeatStep]_vars

\* C16 witness: on the simulator of the example (256, 64, 1, 8), address
\* 512 was accessed twice after a reset and the statistics report 50.
C16_Witness ==
    /\ config.cache_size = 256 /\ config.line_size = 64
    /\ config.associativity = 1 /\ config.element_size = 8
    /\ config.num_sets = 4
    /\ alog = <<512, 512>>
    /\ cret.kind = "stats" /\ cret.value.hits = 1 /\ cret.value.misses = 1
    /\ cret.value.hit_rate = <<100, 2>>
\* every coordinate of the event lies in [0, nn)
InRange(ev, nn) ==
    \A q \in 1..3 : ev[q][1] \in 0..(nn - 1) /\ ev[q][2] \in 0..(nn - 1)

\* C17: when simulate_accesses is called without base addresses, the
\* default bases of A, B and C are pairwise distinct and the three address
\* ranges [base, base + n*n*element_size) are pairwise non-overlapping for
\* every matrix size n, so that no element of one matrix shares a byte
\* address with an element of another matrix.
C17_DefaultBasesDisjoint ==
    (ccall.op = "simulate_accesses" /\ ccall.matrix_bases = None) =>
        LET nn == ccall.matrix_size
            size == nn * nn * config.element_size
            ev == ccall.tracks[1]
            Inside(a, m) == DefaultBases[m] <= a /\ a < DefaultBases[m] + size
        IN  /\ \A m1 \in Matrices, m2 \in Matrices :
                  m1 # m2 =>
                      /\ DefaultBases[m1] # DefaultBases[m2]
                      /\ \/ DefaultBases[m1] + size <= DefaultBases[m2]
                         \/ DefaultBases[m2] + size <= DefaultBases[m1]
            /\ InRange(ev, nn) =>
                  /\ Inside(ccall.addresses[1], "A")
                  /\ ~Inside(ccall.addresses[1], "B")
                  /\ ~Inside(ccall.addresses[1], "C")
                  /\ Inside(ccall.addresses[2], "B")
                  /\ ~Inside(ccall.addresses[2], "A")
                  /\ ~Inside(ccall.addresses[2], "C")
                  /\ Inside(ccall.addresses[3], "C")
                  /\ ~Inside(ccall.addresses[3], "A")
                  /\ ~Inside(ccall.addresses[3], "B")

\* C18: a matrix coordinate outside [0, n) given to trace replay is
\* detected and reported as an out-of-range error; it never silently
\* produces the byte address of another, in-range element.
C18_OutOfRangeDetected ==
    (ccall.op = "simulate_accesses" /\ ~InRange(ccall.tracks[1], ccall.matrix_size))
        => cret.kind # "stats"
\* C19: after a successful simulate the derived views tally the trace
\* exactly: in each of the heatmaps A, B and C every coordinate of the
\* n x n grid has count exactly n, access_count is n^3 for each of A, B, C,
\* and total_operations = theoretical_ops = n^3, for every loop order and
\* both blocking modes.  (tracks is non-empty exactly when the last
\* simulate returned a non-empty trace and no reset followed.)
C19_ViewsTally ==
    /\ (gcall.op = "get_heatmap_data" /\ tracks # <<>>) =>
          /\ gret.kind = "heatmaps"
          /\ DOMAIN gret.value = Matrices
          /\ \A m \in Matrices :
                /\ DOMAIN gret.value[m] = Grid(n)
                /\ \A pos \in Grid(n) : gret.value[m][pos] = n
    /\ (gcall.op = "get_statistics" /\ tracks # <<>>) =>
          /\ \A m \in Matrices : gret.value.access_count[m] = n * n * n
          /\ gret.value.total_operations = n * n * n
          /\ gret.value.theoretical_ops = n * n * n
          /\ gret.value.total_operations = gret.value.theoretical_ops

\* C19 witness: the heatmaps of a generator with n = 3 and tiles of 2
\* after a simulate: 27 events, the corner (2, 2) of C counted 3 times.
C19_Witness ==
    /\ gcall.op = "get_heatmap_data" /\ n = 3 /\ block_size = 2
    /\ Len(tracks) = 27
    /\ gret.value["C"][<<2, 2>>] = 3
\* C20: trace generation is deterministic and history-independent:
\* simulate(loop_order, blocked) on a generator with given n and tile size
\* returns the same sequence whatever simulate or reset calls (successful
\* or failed) were made on the instance before, namely the sequence a new
\* instance with the same arguments returns.
C20_SimulateStep ==
    gcall'.op = "simulate" =>
        LET fresh == SimulateGen(n, block_size, gcall'.loop_order, gcall'.blocked)
        IN  /\ gret' = fresh.ret
            /\ tracks' = fresh.g.tracks
            /\ access_count' = fresh.g.access_count

C20_Deterministic == [][C20_SimulateStep]_vars

\* C20 witness: simulate('kji', blocked) on a generator with n = 2 and
\* tiles of 1 returned the 8 events of that order.
C20_Witness ==
    /\ gcall.op = "simulate" /\ gcall.loop_order = "kji" /\ gcall.blocked
    /\ n = 2 /\ block_size = 1
    /\ gret.kind = "trace" /\ Len(gret.value) = 8
    /\ gret.value[2] = MacEvent(1, 0, 0)
    /\ gret.value = SimulateGen(2, 1, "kji", TRUE).ret.value
\* C21: a trace returned by simulate is read-only afterwards: later
\* simulate or reset calls on the same generator never change the contents
\* or the length of a trace an earlier simulate call returned.
C21_ReturnedTraceKept ==
    /\ \A p \in DOMAIN held :
          /\ heap[held[p].ref] = held[p].value
          /\ Len(heap[held[p].ref]) = Len(held[p].value)
    /\ tracks = heap[tracks_ref]

\* C21 witness: a trace of 8 events was returned, then a reset and another
\* simulate followed; the first trace still has its 8 events, in a list
\* that is no longer the generator's.
C21_Witness ==
    /\ Len(held) = 2 /\ Len(heap) = 4
    /\ held[1].ref = 2 /\ held[2].ref = 4 /\ tracks_ref = 4
    /\ Len(held[1].value) = 8 /\ Len(heap[2]) = 8
    /\ heap[2] # heap[4]
\* the simulator's fields after access was called on each of the addresses
\* addrs[lo..hi] in turn, starting from the fields c
RECURSIVE AfterAccesses(_, _, _, _, _)
AfterAccesses(cfg, c, addrs, lo, hi) ==
    IF lo > hi THEN c
    ELSE IF lo = hi THEN AccessOp(cfg, c, addrs[lo]).c
    ELSE LET mid == (lo + hi) \div 2
             half == AfterAccesses(cfg, c, addrs, lo, mid)
         IN  IF half = half
             THEN AfterAccesses(cfg, half, addrs, mid + 1, hi)
             ELSE half

\* the rate is 100 * h / a
IsRate(rate, h, a) == rate[2] > 0 /\ rate[1] * a = 100 * h * rate[2]

\* C22: after any sequence of access calls since the last reset,
\* len(hit_rate_history) = accesses div 100: a sample is appended exactly
\* on the accesses numbered 100, 200, 300, ... of the run (over all
\* matrices together), and the sample appended on access number 100*m is
\* 100*hits/accesses with the counters already including that access.
C22_HistoryLength == Len(hit_rate_history) = accesses \div 100

C22_AccessStep ==
    AccessStep =>
        IF accesses' % 100 = 0
        THEN /\ Len(hit_rate_history') = Len(hit_rate_history) + 1
             /\ SubSeq(hit_rate_history', 1, Len(hit_rate_history))
                    = hit_rate_history
             /\ IsRate(hit_rate_history'[Len(hit_rate_history')], hits', accesses')
        ELSE hit_rate_history' = hit_rate_history

C22_ReplaySamples ==
    ccall.op = "simulate_accesses" =>
        \A m \in DOMAIN hit_rate_history :
            LET at == AfterAccesses(config, NewCache(config),
                                    ccall.addresses, 1, 100 * m)
            IN  /\ at.accesses = 100 * m
                /\ IsRate(hit_rate_history[m], at.hits, 100 * m)

C22_Sampling ==
    /\ []C22_HistoryLength
    /\ []C22_ReplaySamples
    /\ [][C22_AccessStep]_vars

\* C22 witness: the 100th access of a run, a direct access after a replay
\* of 96 accesses, appended the first sample; the 101st added none.
C22_Witness ==
    /\ ccall.op = "access" /\ accesses = 101
    /\ Len(hit_rate_history) = 1
    /\ hits > 0
\* the sequence without the tag
Without(cache_set, tag) == SelectSeq(cache_set, LAMBDA t : t # tag)

\* C23: on a hit, access evicts nothing: the addressed set holds the same
\* tags before and after, misses is unchanged, and the accessed tag becomes
\* the most recently used of its set while the relative recency order of
\* the other tags is preserved.
C23_HitStep ==
    (AccessStep /\ cret'.value) =>
        LET pa == ParseAddress(config, ccall'.address)
            before == cache[pa.set_index]
            after == cache'[pa.set_index]
        IN  /\ Tags(after) = Tags(before)
            /\ Len(after) = Len(before)
            /\ misses' = misses
            /\ after[Len(after)] = pa.tag
            /\ Without(after, pa.tag) = Without(before, pa.tag)

C24_AccessStep ==
    AccessStep =>
        LET pa == ParseAddress(config, ccall'.address) IN
        /\ DOMAIN cache' = DOMAIN cache
        /\ \A s \in DOMAIN cache : s # pa.set_index => cache'[s] = cache[s]
        /\ cret'.value <=> pa.tag \in Tags(cache[pa.set_index])

C24_SetsIndependent == [][C24_AccessStep]_vars

\* C24 witness: with two sets, address 64 (set 1, tag 0) missed although
\* set 0 held tag 0, and set 0 was left as it was.
C24_Witness ==
    /\ config.num_sets = 2 /\ config.associativity = 1
    /\ alog = <<0, 64>>
    /\ ccall.op = "access" /\ ccall.address = 64 /\ ~cret.value
    /\ cache[0] = <<0>> /\ cache[1] = <<0>>
\* C25: when the tile size is >= n (or was not given and is stored as n),
\* simulate in blocked mode returns, for each of the six loop orders, the
\* sequence that unblocked mode returns for order 'ijk': the requested
\* order has no effect on the trace.
C25_SingleTileIsIjk ==
    (/\ gcall.op = "simulate" /\ gcall.blocked
     /\ gcall.loop_order \in LOOP_ORDERS
     /\ block_size >= n)
        => /\ gret.kind = "trace"
           /\ gret.value = SimulateGen(n, block_size, "ijk", FALSE).ret.value
           /\ tracks = gret.value

\* C25 witness: blocked simulate('kji') with n = 3 and tiles of 4 returned
\* the 27 events of the unblocked 'ijk' walk, not those of unblocked 'kji'.
C25_Witness ==
    /\ gcall.op = "simulate" /\ gcall.blocked /\ gcall.loop_order = "kji"
    /\ n = 3 /\ block_size = 4
    /\ gret.kind = "trace" /\ Len(gret.value) = 27
    /\ gret.value[2] = MacEvent(0, 0, 1)
    /\ gret.value # SimulateGen(3, 4, "kji", FALSE).ret.value

\* C26: a simulate call rejected for an invalid loop order is not
\* state-preserving: the generator resets before it validates, so after
\* the failed call the stored trace is empty and every access count is 0
\* (the heatmaps are all-zero and total_operations is 0), whatever trace
\* the generator held before the call.
C26_FailedStep ==
    (/\ gcall'.op = "simulate" /\ gcall'.loop_order \notin LOOP_ORDERS
     /\ tracks_ref' # tracks_ref)
        => LET after == [tracks |-> tracks', access_count |-> access_count']
               heat == HeatmapData(after, n)
           IN  /\ gret'.kind = "ValueError"
               /\ tracks' = <<>>
               /\ heap'[tracks_ref'] = <<>>
               /\ access_count' = ZeroCount
               /\ \A m \in Matrices : \A pos \in Grid(n) : heat[m][pos] = 0
               /\ GenStatistics(after, n, block_size).total_operations = 0

C26_FailedSimulateResets == [][C26_FailedStep]_vars

\* C26 witness: the generator's second list held a returned trace of 8
\* events when simulate('abc') failed; the generator is now bound to a
\* third, empty list and its counts are 0.
C26_Witness ==
    /\ gcall.op = "simulate" /\ gcall.loop_order = "abc"
    /\ gret.kind = "ValueError"
    /\ Len(heap) = 3 /\ tracks_ref = 3
    /\ Len(held) = 1 /\ held[1].ref = 2 /\ Len(heap[2]) = 8
    /\ tracks = <<>> /\ access_count = ZeroCount
\* C27: under every interleaving of the update_simulation and
\* update_visualizations callbacks that a matrix-size change triggers,
\* update_visualizations only renders an access whose coordinates are all
\* below the n it received: it never draws the previous, larger matrix's
\* trace with the new n and never indexes the n x n grid out of range.
C27_RendersInRange ==
    /\ rendered.kind # "IndexError"
    /\ rendered.kind = "figures" =>
          \A m \in 1..3 : /\ rendered.current_access[m][1] < rendered.n
                          /\ rendered.current_access[m][2] < rendered.n

\* C28: for every matrix size the dashboard can select, the geometry of
\* the cache it constructs (cache_size = max(4096, n*n*8), line_size 64,
\* associativity 4) is valid: line_size divides cache_size, associativity
\* divides cache_size / line_size, and
\* num_sets * associativity * line_size = cache_size.
C28_DashGeometryValid ==
    config # None =>
        /\ PyMod(config.cache_size, config.line_size) = 0
        /\ PyMod(config.cache_size \div config.line_size, config.associativity) = 0
        /\ config.num_sets * config.associativity * config.line_size
               = config.cache_size
\* C29: dashboard playback.  While the animation state is playing, each
\* interval tick advances the frame by max(1, speed div 10) and never
\* beyond max_frame; once playing is False, ticks leave the frame
\* unchanged; a reset-button event always sets frame 0 and playing False;
\* and if ticks keep arriving and no other control is used, the frame
\* eventually equals max_frame and playing becomes False.
C29_TickStep ==
    (ui'.triggered = "animation-interval" /\ user_events' = user_events) =>
        IF ui.state.playing
        THEN LET target == ui.state.frame + Max(1, ui.speed \div 10) IN
             /\ ui'.state.frame = Min(target, ui.max_frame)
             /\ ui'.state.frame <= ui.max_frame
             /\ ui'.frame = ui'.state.frame
             /\ ui'.state.playing <=> target < ui.max_frame
        ELSE /\ ui'.state = ui.state
             /\ ui'.frame = ui.state.frame

C29_ResetStep ==
    (ui'.triggered = "reset-button" /\ user_events' # user_events) =>
        /\ ui'.state = [playing |-> FALSE, frame |-> 0]
        /\ ui'.frame = 0

\* from any playing state, either the user operates a control (user_events
\* moves on from k) or playback reaches max_frame and stops
C29_Finishes ==
    \A k \in 0 .. MaxUserEvents :
        [](  (ui.state.playing /\ user_events = k)
          => <>(\/ user_events # k
                \/ ui.state.frame = ui.max_frame /\ ~ui.state.playing))

C29_Playback ==
    /\ [][C29_TickStep]_vars
    /\ [][C29_ResetStep]_vars
    /\ C29_Finishes

\* C29 witness: after play as the only user event, ticks of speed 100
\* (10 frames each) took the frame from 0 to max_frame = 63, where playing
\* became False while the interval is still enabled.
C29_Witness ==
    /\ user_events = 1 /\ ui.speed = 100
    /\ ui.triggered = "animation-interval" /\ ~ui.interval_disabled
    /\ ui.max_frame = 63 /\ ui.state = [playing |-> FALSE, frame |-> 63]
    /\ ui.frame = 63 /\ rendered.frame = 63
====
